---------------------------- MODULE Spec2Model ----------------------------
(***************************************************************************)
(* vcf2csv: conversion of vCards into rows of a church directory.          *)
(*                                                                         *)
(* Strings are modelled as sequences of lexemes.  A lexeme is either one   *)
(* character the code looks at (a bracket character of Apple's label       *)
(* syntax, a space, "&", ";", a digit of a phone number ...) or a word     *)
(* none of whose characters the code looks at ("Anniversary", "Jane").     *)
(* The empty Go string is the empty sequence.  The separator " - " of      *)
(* formatValue is the single lexeme " - ".                                 *)
(***************************************************************************)
EXTENDS Integers, Sequences, FiniteSets, TLC

VARIABLES input, cards, pc, idx, out, debug, res, lab

vars == <<input, cards, pc, idx, out, debug, res, lab>>

-----------------------------------------------------------------------------
(* Bounds of the model *)

MaxCards == 2
MaxLabels == 2
MaxChunks == 3
MaxDates == 2
MaxRelated == 2

-----------------------------------------------------------------------------
(* Package strings *)

RECURSIVE IndexOf(_, _, _)
IndexOf(s, sep, k) ==
    IF k > Len(s) THEN 0
    ELSE IF s[k] = sep THEN k
    ELSE IndexOf(s, sep, k + 1)

RECURSIVE Split(_, _)
Split(s, sep) ==
    LET k == IndexOf(s, sep, 1)
    IN  IF k = 0 THEN <<s>>
        ELSE <<SubSeq(s, 1, k - 1)>> \o Split(SubSeq(s, k + 1, Len(s)), sep)

RECURSIVE TrimLeft(_)
TrimLeft(s) ==
    IF s # <<>> /\ Head(s) = " " THEN TrimLeft(Tail(s)) ELSE s

RECURSIVE TrimRight(_)
TrimRight(s) ==
    IF s # <<>> /\ s[Len(s)] = " " THEN TrimRight(SubSeq(s, 1, Len(s) - 1)) ELSE s

TrimSpace(s) == TrimRight(TrimLeft(s))

HasPrefix(s, p) == Len(s) >= Len(p) /\ SubSeq(s, 1, Len(p)) = p

HasSuffix(s, p) == Len(s) >= Len(p) /\ SubSeq(s, Len(s) - Len(p) + 1, Len(s)) = p

TrimPrefix(s, p) == IF HasPrefix(s, p) THEN SubSeq(s, Len(p) + 1, Len(s)) ELSE s

TrimSuffix(s, p) == IF HasSuffix(s, p) THEN SubSeq(s, 1, Len(s) - Len(p)) ELSE s

RECURSIVE Join(_, _)
Join(list, sep) ==
    IF list = <<>> THEN <<>>
    ELSE IF Len(list) = 1 THEN list[1]
    ELSE list[1] \o sep \o Join(Tail(list), sep)

ToLower(t) ==
    CASE t = "HOME" -> "home"
      [] t = "WORK" -> "work"
      [] t = "CELL" -> "cell"
      [] OTHER -> t

-----------------------------------------------------------------------------
(* Values for X-ABLABEL fields *)

LabelAnniversary == <<"Anniversary">>
LabelBirthday == <<"Birthday">>
LabelChild == <<"Child">>
LabelPartner == <<"Partner">>
LabelSpouse == <<"Spouse">>

ApplePrefix == <<"_", "$", "!", "<">>
AppleSuffix == <<">", "!", "$", "_">>

\* variant: the suffix is trimmed only when no prefix was
normalizeLabelElseIf(v) ==
    IF HasPrefix(v, ApplePrefix) THEN TrimPrefix(v, ApplePrefix)
    ELSE TrimSuffix(v, AppleSuffix)

normalizeLabel(v) == TrimSuffix(TrimPrefix(v, ApplePrefix), AppleSuffix)

-----------------------------------------------------------------------------
(* formatDate: time.Parse with the layouts "1/2", "2006-01-02" and         *)
(* "Jan _2, 2006", then Format("Jan 2").  A date string is a sequence of   *)
(* number and month lexemes and punctuation.                               *)

MonthAbbr ==
    <<"Jan", "Feb", "Mar", "Apr", "May", "Jun",
      "Jul", "Aug", "Sep", "Oct", "Nov", "Dec">>

NumLexemes ==
    [x \in {"1", "3", "5", "9", "12", "25"} |->
        CASE x = "1" -> 1 [] x = "3" -> 3 [] x = "5" -> 5 [] x = "9" -> 9
          [] x = "12" -> 12 [] x = "25" -> 25]

ZeroNumLexemes ==
    [x \in {"01", "03", "05", "09", "12", "25"} |->
        CASE x = "01" -> 1 [] x = "03" -> 3 [] x = "05" -> 5 [] x = "09" -> 9
          [] x = "12" -> 12 [] x = "25" -> 25]

YearLexemes == {"1980", "2024"}

DayText(d) ==
    CASE d = 1 -> "1" [] d = 3 -> "3" [] d = 5 -> "5" [] d = 9 -> "9"
      [] d = 12 -> "12" [] d = 25 -> "25"

\* a one or two digit number ("1", "2" of a layout): 0 when it does not parse
Num(x) ==
    IF x \in DOMAIN NumLexemes THEN NumLexemes[x]
    ELSE IF x \in DOMAIN ZeroNumLexemes THEN ZeroNumLexemes[x]
    ELSE 0

\* a two digit number ("01", "02" of a layout): 0 when it does not parse
ZeroNum(x) == IF x \in DOMAIN ZeroNumLexemes THEN ZeroNumLexemes[x] ELSE 0

MonthOfAbbr(x) ==
    IF \E m \in 1..12 : MonthAbbr[m] = x
    THEN CHOOSE m \in 1..12 : MonthAbbr[m] = x
    ELSE 0

NoDate == [ok |-> FALSE, month |-> 0, day |-> 0]

\* layout "1/2"
ParseMonthDay(s) ==
    IF Len(s) = 3 /\ s[2] = "/" /\ Num(s[1]) \in 1..12 /\ Num(s[3]) > 0
    THEN [ok |-> TRUE, month |-> Num(s[1]), day |-> Num(s[3])]
    ELSE NoDate

\* layout "2006-01-02"
ParseISO(s) ==
    IF /\ Len(s) = 5 /\ s[1] \in YearLexemes /\ s[2] = "-" /\ s[4] = "-"
       /\ ZeroNum(s[3]) \in 1..12 /\ ZeroNum(s[5]) > 0
    THEN [ok |-> TRUE, month |-> ZeroNum(s[3]), day |-> ZeroNum(s[5])]
    ELSE NoDate

\* layout "Jan _2, 2006"
ParseLong(s) ==
    LET t == IF Len(s) >= 3 /\ s[3] = " " /\ s[2] = " "
             THEN <<s[1], s[2]>> \o SubSeq(s, 4, Len(s))
             ELSE s
    IN  IF /\ Len(t) = 6 /\ MonthOfAbbr(t[1]) > 0 /\ t[2] = " " /\ Num(t[3]) > 0
           /\ t[4] = "," /\ t[5] = " " /\ t[6] \in YearLexemes
        THEN [ok |-> TRUE, month |-> MonthOfAbbr(t[1]), day |-> Num(t[3])]
        ELSE NoDate

FormatJan2(t) == <<MonthAbbr[t.month], " ", DayText(t.day)>>

formatDate(s) ==
    IF ParseMonthDay(s).ok THEN FormatJan2(ParseMonthDay(s))
    ELSE IF ParseISO(s).ok THEN FormatJan2(ParseISO(s))
    ELSE IF ParseLong(s).ok THEN FormatJan2(ParseLong(s))
    ELSE s

-----------------------------------------------------------------------------
(* formatValue, formatBirthday, formatPhone, formatField *)

Digits == {"0", "1", "2", "3", "4", "5", "6", "7", "8", "9"}

RECURSIVE OnlyDigits(_)
OnlyDigits(s) ==
    IF s = <<>> THEN <<>>
    ELSE IF Head(s) \in Digits THEN <<Head(s)>> \o OnlyDigits(Tail(s))
    ELSE OnlyDigits(Tail(s))

formatPhone(s) ==
    LET num == OnlyDigits(s)
    IN  IF Len(num) = 10
        THEN <<"(">> \o SubSeq(num, 1, 3) \o <<")", " ">> \o SubSeq(num, 4, 6)
                 \o <<"-">> \o SubSeq(num, 7, 10)
        ELSE s

\* fn is one of "nil", "formatDate", "formatPhone"
ApplyFn(fn, s) ==
    CASE fn = "formatDate" -> formatDate(s)
      [] fn = "formatPhone" -> formatPhone(s)
      [] OTHER -> s

formatValue(s, fn) ==
    LET parts == Split(s, " - ")
    IN  IF Len(parts) = 2
        THEN TrimSpace(parts[2]) \o <<":", " ">> \o ApplyFn(fn, TrimSpace(parts[1]))
        ELSE ApplyFn(fn, s)

formatBirthday(s) == formatValue(s, "formatDate")

RECURSIVE AppendTypes(_, _)
AppendTypes(val, types) ==
    IF types = <<>> THEN val
    ELSE IF Head(types) \in {"VOICE", "INTERNET", "pref"}
         THEN AppendTypes(val, Tail(types))
         ELSE AppendTypes(val \o <<" ", "(", ToLower(Head(types)), ")">>, Tail(types))

formatField(f, fn) == AppendTypes(formatValue(f.Value, fn), f.Type)


-----------------------------------------------------------------------------
(* A card maps a field name to the list of its occurrences.  A deleted key *)
(* and a key with no occurrence read alike (card[k] is the empty list).    *)

FieldLabel == "X-ABLABEL"
FieldDate == "X-ABDATE"
FieldRelated == "X-ABRELATEDNAMES"
FieldName == "N"
FieldFormattedName == "FN"
FieldAddress == "ADR"
FieldBirthday == "BDAY"
FieldEmail == "EMAIL"
FieldTelephone == "TEL"

FieldNames ==
    {FieldLabel, FieldDate, FieldRelated, FieldName, FieldFormattedName,
     FieldAddress, FieldBirthday, FieldEmail, FieldTelephone, "NOTE", "UID"}

Delete(card, k) == [card EXCEPT ![k] = <<>>]

maybeGet(l, i) == IF i <= Len(l) THEN l[i] ELSE <<>>

\* card.Name() of go-vcard: nil without an N occurrence, else the components
\* (family name; given name; ...) of the preferred occurrence, which is the
\* first one when no occurrence carries a preference
CardName(card) ==
    IF card[FieldName] = <<>>
    THEN [nil |-> TRUE, FamilyName |-> <<>>, GivenName |-> <<>>]
    ELSE LET c == Split(card[FieldName][1].Value, ";")
         IN  [nil |-> FALSE, FamilyName |-> maybeGet(c, 1), GivenName |-> maybeGet(c, 2)]

\* one element of card.Addresses()
CardAddress(f) ==
    LET c == Split(f.Value, ";")
    IN  [PostOfficeBox |-> maybeGet(c, 1), ExtendedAddress |-> maybeGet(c, 2),
         StreetAddress |-> maybeGet(c, 3), Locality |-> maybeGet(c, 4),
         Region |-> maybeGet(c, 5), PostalCode |-> maybeGet(c, 6)]

\* card.Value(k): the value of the first occurrence, "" without one
CardValue(card, k) == IF card[k] = <<>> THEN <<>> ELSE card[k][1].Value

Entry ==
    [GivenName |-> <<>>, FamilyName |-> <<>>, Image |-> <<>>, Address |-> <<>>,
     Phone |-> <<>>, Email |-> <<>>, Birthday |-> <<>>, Children |-> <<>>,
     Anniversary |-> <<>>]

\* labels[g] of a Go map: "" for a missing key
Lookup(labels, g) == IF g \in DOMAIN labels THEN labels[g] ELSE <<>>

-----------------------------------------------------------------------------
(* convertCard, step by step.  A step takes and returns the locals of the  *)
(* function: the card, the entry e, the labels, the names and the error    *)
(* ("nil" while none was returned, "panic" for a nil dereference).  The    *)
(* debug output at the end of the function changes none of them.           *)

RECURSIVE BuildLabels(_, _, _)
BuildLabels(fields, k, labels) ==
    IF k > Len(fields) THEN labels
    ELSE BuildLabels(fields, k + 1,
            [g \in DOMAIN labels \cup {fields[k].Group} |->
                IF g = fields[k].Group THEN normalizeLabel(fields[k].Value)
                ELSE labels[g]])

StepLabels(st) ==
    IF st.err # "nil" THEN st
    ELSE [st EXCEPT !.labels = BuildLabels(st.card[FieldLabel], 1, <<>>),
                    !.card = Delete(st.card, FieldLabel)]

RECURSIVE ABDateLoop(_, _, _, _)
ABDateLoop(fields, k, labels, e) ==
    IF k > Len(fields) THEN [e |-> e, err |-> "nil"]
    ELSE IF Lookup(labels, fields[k].Group) = LabelAnniversary
    THEN IF e.Anniversary # <<>>
         THEN [e |-> e, err |-> "DuplicateValueError"]
         ELSE ABDateLoop(fields, k + 1, labels,
                [e EXCEPT !.Anniversary = formatDate(fields[k].Value)])
    ELSE [e |-> e, err |-> "UnknownDateField"]

StepABDate(st) ==
    IF st.err # "nil" THEN st
    ELSE LET r == ABDateLoop(st.card[FieldDate], 1, st.labels, st.e)
         IN  IF r.err # "nil" THEN [st EXCEPT !.e = r.e, !.err = r.err]
             ELSE [st EXCEPT !.e = r.e, !.card = Delete(st.card, FieldDate)]

StepName(st) ==
    IF st.err # "nil" THEN st
    ELSE IF CardName(st.card).nil THEN [st EXCEPT !.err = "panic"]
    ELSE LET nameParts == Split(CardName(st.card).GivenName, "&")
             primary == TrimSpace(nameParts[1])
             spouse == IF Len(nameParts) > 1 THEN TrimSpace(nameParts[2]) ELSE <<>>
         IN  IF Len(st.card[FieldName]) # 1
             THEN [st EXCEPT !.primaryName = primary, !.spouseName = spouse,
                             !.err = "MalformedRecord"]
             ELSE [st EXCEPT !.primaryName = primary, !.spouseName = spouse,
                             !.e.GivenName = CardName(st.card).GivenName,
                             !.e.FamilyName = CardName(st.card).FamilyName,
                             !.card = Delete(Delete(st.card, FieldName), FieldFormattedName)]

FormatAddress(a) ==
    a.StreetAddress \o <<"\n">> \o a.Locality \o <<",", " ">> \o a.Region
        \o <<" ">> \o a.PostalCode

RECURSIVE AddressLoop(_, _, _)
AddressLoop(fields, k, e) ==
    IF k > Len(fields) THEN [e |-> e, err |-> "nil"]
    ELSE LET a == CardAddress(fields[k])
         IN  IF a.PostOfficeBox # <<>> \/ a.ExtendedAddress # <<>>
             THEN [e |-> e, err |-> "UnsupportedAddressShape"]
             ELSE AddressLoop(fields, k + 1,
                    [e EXCEPT !.Address = Append(@, FormatAddress(a))])

StepAddress(st) ==
    IF st.err # "nil" THEN st
    ELSE LET r == AddressLoop(st.card[FieldAddress], 1, st.e)
         IN  IF r.err # "nil" THEN [st EXCEPT !.e = r.e, !.err = r.err]
             ELSE [st EXCEPT !.e = r.e, !.card = Delete(st.card, FieldAddress)]

\* variant: the birthday is never qualified with the primary name
StepBirthdayUnqualified(st) ==
    IF st.err # "nil" THEN st
    ELSE LET v == CardValue(st.card, FieldBirthday)
         IN  IF v # <<>>
             THEN [st EXCEPT !.e.Birthday = Append(@, formatDate(v)),
                             !.card = Delete(st.card, FieldBirthday)]
             ELSE st

StepBirthday(st) ==
    IF st.err # "nil" THEN st
    ELSE LET v == CardValue(st.card, FieldBirthday)
             bday == IF st.spouseName # <<>>
                     THEN st.primaryName \o <<":", " ">> \o formatDate(v)
                     ELSE formatDate(v)
         IN  IF v # <<>>
             THEN [st EXCEPT !.e.Birthday = Append(@, bday),
                             !.card = Delete(st.card, FieldBirthday)]
             ELSE st

\* variant: a Child occurrence is appended to the birthdays
RECURSIVE RelatedLoopChildAsBirthday(_, _, _, _, _)
RelatedLoopChildAsBirthday(fields, k, labels, e, unused) ==
    IF k > Len(fields) THEN [e |-> e, err |-> "nil", unused |-> unused]
    ELSE LET f == fields[k]
             l == Lookup(labels, f.Group)
         IN  IF l \in {LabelBirthday, LabelPartner, LabelSpouse, LabelChild}
             THEN RelatedLoopChildAsBirthday(fields, k + 1, labels,
                    [e EXCEPT !.Birthday = Append(@, formatBirthday(f.Value))], unused)
             ELSE IF l = LabelAnniversary
             THEN IF e.Anniversary # <<>>
                  THEN [e |-> e, err |-> "DuplicateValueError", unused |-> unused]
                  ELSE RelatedLoopChildAsBirthday(fields, k + 1, labels,
                         [e EXCEPT !.Anniversary = formatDate(f.Value)], unused)
             ELSE RelatedLoopChildAsBirthday(fields, k + 1, labels, e, Append(unused, f))

RECURSIVE RelatedLoop(_, _, _, _, _)
RelatedLoop(fields, k, labels, e, unused) ==
    IF k > Len(fields) THEN [e |-> e, err |-> "nil", unused |-> unused]
    ELSE LET f == fields[k]
             l == Lookup(labels, f.Group)
         IN  IF l \in {LabelBirthday, LabelPartner, LabelSpouse}
             THEN RelatedLoop(fields, k + 1, labels,
                    [e EXCEPT !.Birthday = Append(@, formatBirthday(f.Value))], unused)
             ELSE IF l = LabelChild
             THEN RelatedLoop(fields, k + 1, labels,
                    [e EXCEPT !.Children = Append(@, formatBirthday(f.Value))], unused)
             ELSE IF l = LabelAnniversary
             THEN IF e.Anniversary # <<>>
                  THEN [e |-> e, err |-> "DuplicateValueError", unused |-> unused]
                  ELSE RelatedLoop(fields, k + 1, labels,
                         [e EXCEPT !.Anniversary = formatDate(f.Value)], unused)
             ELSE RelatedLoop(fields, k + 1, labels, e, Append(unused, f))

StepRelated(st) ==
    IF st.err # "nil" \/ st.card[FieldRelated] = <<>> THEN st
    ELSE LET r == RelatedLoop(st.card[FieldRelated], 1, st.labels, st.e, <<>>)
         IN  IF r.err # "nil" THEN [st EXCEPT !.e = r.e, !.err = r.err]
             ELSE [st EXCEPT !.e = r.e, !.card[FieldRelated] = r.unused]

RECURSIVE FieldLoop(_, _, _)
FieldLoop(fields, k, fn) ==
    IF k > Len(fields) THEN <<>>
    ELSE <<formatField(fields[k], fn)>> \o FieldLoop(fields, k + 1, fn)

StepEmail(st) ==
    IF st.err # "nil" THEN st
    ELSE [st EXCEPT !.e.Email = @ \o FieldLoop(st.card[FieldEmail], 1, "nil"),
                    !.card = Delete(st.card, FieldEmail)]

StepPhone(st) ==
    IF st.err # "nil" THEN st
    ELSE [st EXCEPT !.e.Phone = @ \o FieldLoop(st.card[FieldTelephone], 1, "formatPhone"),
                    !.card = Delete(st.card, FieldTelephone)]

\* the debug statement at the top of convertCard dereferences card.Name()
StepDebugName(st, dbg) ==
    IF dbg /\ CardName(st.card).nil THEN [st EXCEPT !.err = "panic"] ELSE st

Locals(card) ==
    [card |-> card, e |-> Entry, labels |-> <<>>, primaryName |-> <<>>,
     spouseName |-> <<>>, err |-> "nil"]

\* variant: the name and address steps run before the X-ABDATE step
convertCardNameFirst(card, dbg) ==
    StepPhone(StepEmail(StepRelated(StepBirthday(StepABDate(StepAddress(StepName(
        StepLabels(StepDebugName(Locals(card), dbg)))))))))

convertCard(card, dbg) ==
    StepPhone(StepEmail(StepRelated(StepBirthday(StepAddress(StepName(StepABDate(
        StepLabels(StepDebugName(Locals(card), dbg)))))))))

\* the csv record main builds from an entry
Record(e) ==
    <<e.GivenName, e.FamilyName, e.Image, Join(e.Address, <<"\n", "\n">>),
      Join(e.Phone, <<"\n">>), Join(e.Email, <<"\n">>), Join(e.Birthday, <<"\n">>),
      Join(e.Children, <<"\n">>), e.Anniversary>>

-----------------------------------------------------------------------------
(* The cards of the model *)

Occ(g, v) == [Group |-> g, Value |-> v, Type |-> <<>>]

TypedOcc(v, t) == [Group |-> "", Value |-> v, Type |-> t]

Bracketed(l) == ApplePrefix \o l \o AppleSuffix

RECURSIVE SeqsUpTo(_, _)
SeqsUpTo(S, n) ==
    IF n = 0 THEN {<<>>}
    ELSE LET shorter == SeqsUpTo(S, n - 1)
         IN  shorter \cup {Append(q, x) : q \in {t \in shorter : Len(t) = n - 1}, x \in S}

\* the labels of the cards that vary the X-ABDATE occurrences
DateLabelPool ==
    {Occ("item1", Bracketed(LabelAnniversary)), Occ("item1", <<"Friend">>),
     Occ("item2", LabelChild), Occ("", LabelAnniversary)}

DateLabelLists == SeqsUpTo(DateLabelPool, MaxLabels)

DatePool ==
    {Occ("item1", <<"3", "/", "5">>), Occ("item1", <<>>), Occ("item1", <<"soon">>),
     Occ("item2", <<"3", "/", "5">>), Occ("", <<"3", "/", "5">>)}

DateLists == SeqsUpTo(DatePool, MaxDates)

\* the labels of the cards that vary the related names
RelatedLabelPool ==
    {Occ("item1", Bracketed(LabelAnniversary)), Occ("item1", <<"Friend">>),
     Occ("item2", LabelChild), Occ("item2", Bracketed(LabelSpouse)),
     Occ("", LabelPartner)}

RelatedLabelLists == SeqsUpTo(RelatedLabelPool, MaxLabels)

RelatedPool ==
    {Occ("item1", <<"3", "/", "5", " - ", "Jane">>), Occ("item1", <<>>),
     Occ("item2", <<"3", "/", "5", " - ", "Jane">>), Occ("", <<>>)}

RelatedLists == SeqsUpTo(RelatedPool, MaxRelated)

NameJaneBob == Occ("", <<"Smith", ";", "Jane", " ", "&", " ", "Bob", ";", ";", ";">>)
NameAnn == Occ("", <<"Doe", ";", "Ann">>)
NameJaneAmp == Occ("", <<"Roe", ";", "Jane", " ", "&", " ">>)
NameThree == Occ("", <<"Poe", ";", " ", "Jane", " ", "&", "Bob", "&", "Al">>)

AddressPlain ==
    Occ("", <<";", ";", "1", " ", "Main", " ", "St", ";", "Half", " ", "Moon", " ",
              "Bay", ";", "CA", ";", "94019", ";", "USA">>)
AddressShort == Occ("", <<";", ";", "2", " ", "Kelly", " ", "Ave">>)
AddressPOBox == Occ("", <<"Box", " ", "7", ";", ";", ";", "Pescadero", ";", "CA", ";", "94060">>)
AddressExtended == Occ("", <<";", "Apt", " ", "3", ";", "1", " ", "Main", " ", "St">>)

BirthdayISO == Occ("", <<"1980", "-", "03", "-", "05">>)
BirthdayLong == Occ("", <<"Dec", " ", "25", ",", " ", "2024">>)
BirthdayEmpty == Occ("", <<>>)

EmailHome == TypedOcc(<<"jane@x.com">>, <<"INTERNET", "HOME", "pref">>)
EmailNamed == TypedOcc(<<"bob@x.com", " - ", "Bob">>, <<>>)
PhoneCell ==
    TypedOcc(<<"5", "5", "5", "-", "1", "2", "3", "-", "4", "5", "6", "7">>, <<"CELL", "VOICE">>)
PhoneShort == TypedOcc(<<"1", "2", "3", "-", "4", "5", "6", "7", " - ", "Bob">>, <<>>)

Note == Occ("", <<"likes", " ", "tea">>)
Uid == Occ("", <<"uid-1">>)
FormattedName == Occ("", <<"Jane", " ", "Smith">>)

MkCard(labels, dates, names, adrs, bdays, related, emails, tels, notes) ==
    [k \in FieldNames |->
        CASE k = FieldLabel -> labels
          [] k = FieldDate -> dates
          [] k = FieldName -> names
          [] k = FieldFormattedName -> IF names = <<>> THEN <<>> ELSE <<FormattedName>>
          [] k = FieldAddress -> adrs
          [] k = FieldBirthday -> bdays
          [] k = FieldRelated -> related
          [] k = FieldEmail -> emails
          [] k = FieldTelephone -> tels
          [] k = "NOTE" -> notes
          [] k = "UID" -> <<Uid>>]

\* cards that vary the labels, the X-ABDATE occurrences, the names and the addresses
DateCards ==
    {MkCard(l, d, na[1], na[2], <<>>, <<>>, <<EmailHome>>, <<>>, <<Note>>) :
        l \in DateLabelLists, d \in DateLists,
        na \in {<<<<>>, <<AddressPlain>>>>,
                <<<<NameAnn>>, <<AddressPlain>>>>,
                <<<<NameJaneBob, NameAnn>>, <<AddressPlain>>>>,
                <<<<NameAnn>>, <<AddressShort, AddressPOBox>>>>,
                <<<<NameJaneBob, NameAnn>>, <<AddressShort, AddressPOBox>>>>}}

\* cards that vary the labels and the related names
RelatedCards ==
    {MkCard(l, d, <<NameAnn>>, <<>>, <<BirthdayISO>>, r, <<>>, <<PhoneCell>>, <<>>) :
        l \in RelatedLabelLists, r \in RelatedLists,
        d \in {<<>>, <<Occ("item1", <<"3", "/", "5">>)>>, <<Occ("item1", <<>>)>>}}

\* cards that vary the birthday, the given name and the fields left over
BirthdayCards ==
    {MkCard(<<Occ("item2", Bracketed(LabelSpouse)), Occ("item1", <<"Friend">>)>>, <<>>,
            <<n>>, a, b, r, c[1], c[2], o) :
        n \in {NameJaneBob, NameAnn, NameJaneAmp, NameThree},
        a \in {<<>>, <<AddressPlain, AddressShort>>, <<AddressExtended>>},
        b \in {<<>>, <<BirthdayISO>>, <<BirthdayEmpty>>, <<BirthdayLong, BirthdayISO>>,
               <<BirthdayEmpty, BirthdayISO>>},
        r \in {<<>>, <<Occ("item2", <<"12", "/", "25", " - ", "Bob">>)>>,
               <<Occ("item1", <<"Al">>), Occ("item2", <<"soon">>)>>},
        c \in {<<<<>>, <<>>>>, <<<<EmailHome, EmailNamed>>, <<PhoneCell, PhoneShort>>>>},
        o \in {<<>>, <<Note>>}}

CardSet == DateCards \cup RelatedCards \cup BirthdayCards

\* the items of the streams of several cards; an item that is not ok is
\* input the decoder rejects
GoodCard ==
    MkCard(<<Occ("item1", Bracketed(LabelAnniversary))>>, <<Occ("item1", <<"3", "/", "5">>)>>,
           <<NameJaneBob>>, <<AddressPlain>>, <<BirthdayISO>>, <<>>, <<EmailHome>>,
           <<PhoneCell>>, <<>>)

PlainCard == MkCard(<<>>, <<>>, <<NameAnn>>, <<>>, <<>>, <<>>, <<>>, <<>>, <<Note>>)

StreamItems ==
    {[ok |-> TRUE, card |-> c] :
        c \in {GoodCard, PlainCard,
               [GoodCard EXCEPT ![FieldName] = <<>>],
               [GoodCard EXCEPT ![FieldName] = <<NameAnn, NameJaneBob>>],
               [GoodCard EXCEPT ![FieldAddress] = <<AddressPOBox>>],
               [GoodCard EXCEPT ![FieldDate] = <<Occ("item2", <<"3", "/", "5">>)>>],
               [GoodCard EXCEPT ![FieldDate] = @ \o @]}}
        \cup {[ok |-> FALSE, card |-> PlainCard]}

Inputs ==
    {<<[ok |-> TRUE, card |-> c]>> : c \in CardSet} \cup SeqsUpTo(StreamItems, MaxCards)

-----------------------------------------------------------------------------
(* main *)

NoResult ==
    [called |-> FALSE, src |-> PlainCard, dbg |-> FALSE, st |-> Locals(PlainCard)]

Result(card, dbg) ==
    [called |-> TRUE, src |-> card, dbg |-> dbg, st |-> convertCard(card, dbg)]

Init ==
    /\ input \in Inputs
    /\ debug \in BOOLEAN
    /\ cards = <<>>
    /\ pc = "read"
    /\ idx = 1
    /\ out = <<>>
    /\ res = NoResult
    /\ lab = <<>>

\* readCards: dec.Decode returns a card
Decode ==
    /\ pc = "read"
    /\ input # <<>>
    /\ Head(input).ok
    /\ cards' = Append(cards, Head(input).card)
    /\ input' = Tail(input)
    /\ UNCHANGED <<pc, idx, out, debug, res, lab>>

\* readCards: dec.Decode returns an error, main logs it and exits
DecodeError ==
    /\ pc = "read"
    /\ input # <<>>
    /\ ~Head(input).ok
    /\ pc' = "fatal"
    /\ UNCHANGED <<input, cards, idx, out, debug, res, lab>>

\* readCards: dec.Decode returns io.EOF, main starts its loop
DecodeEOF ==
    /\ pc = "read"
    /\ input = <<>>
    /\ pc' = "convert"
    /\ UNCHANGED <<input, cards, idx, out, debug, res, lab>>

\* one iteration of main's loop: the card converts and its row is written
ConvertWrite ==
    /\ pc = "convert"
    /\ idx <= Len(cards)
    /\ LET r == Result(cards[idx], debug)
       IN  /\ r.st.err = "nil"
           /\ res' = r
           /\ out' = Append(out, Record(r.st.e))
    /\ idx' = idx + 1
    /\ UNCHANGED <<input, cards, pc, debug, lab>>

\* variant: the row of the entry returned with the error is written before exiting
ConvertFatalWritesRow ==
    /\ pc = "convert"
    /\ idx <= Len(cards)
    /\ LET r == Result(cards[idx], debug)
       IN  /\ r.st.err \notin {"nil", "panic"}
           /\ res' = r
           /\ out' = Append(out, Record(r.st.e))
    /\ pc' = "fatal"
    /\ UNCHANGED <<input, cards, idx, debug, lab>>

\* variant: the failing card is skipped and the loop goes on
ConvertFatalSkips ==
    /\ pc = "convert"
    /\ idx <= Len(cards)
    /\ LET r == Result(cards[idx], debug)
       IN  /\ r.st.err \notin {"nil", "panic"}
           /\ res' = r
    /\ idx' = idx + 1
    /\ UNCHANGED <<input, cards, pc, out, debug, lab>>

\* one iteration of main's loop: convertCard returns an error, log.Fatalf exits
ConvertFatal ==
    /\ pc = "convert"
    /\ idx <= Len(cards)
    /\ LET r == Result(cards[idx], debug)
       IN  /\ r.st.err \notin {"nil", "panic"}
           /\ res' = r
    /\ pc' = "fatal"
    /\ UNCHANGED <<input, cards, idx, out, debug, lab>>

\* one iteration of main's loop: convertCard dereferences the nil card.Name()
ConvertPanic ==
    /\ pc = "convert"
    /\ idx <= Len(cards)
    /\ LET r == Result(cards[idx], debug)
       IN  /\ r.st.err = "panic"
           /\ res' = r
    /\ pc' = "panic"
    /\ UNCHANGED <<input, cards, idx, out, debug, lab>>

\* main returns after the last card
Finish ==
    /\ pc = "convert"
    /\ idx > Len(cards)
    /\ pc' = "done"
    /\ UNCHANGED <<input, cards, idx, out, debug, res, lab>>

Next ==
    \/ Decode
    \/ DecodeError
    \/ DecodeEOF
    \/ ConvertWrite
    \/ ConvertFatal
    \/ ConvertPanic
    \/ Finish

Spec == Init /\ [][Next]_vars

-----------------------------------------------------------------------------
(* Label normalisation applied repeatedly to one label string *)

Chunks ==
    {ApplePrefix, AppleSuffix, LabelAnniversary, <<"_">>, <<"$", "!", "<">>}

RECURSIVE Flatten(_)
Flatten(q) == IF q = <<>> THEN <<>> ELSE Head(q) \o Flatten(Tail(q))

LabelStrings == {Flatten(q) : q \in SeqsUpTo(Chunks, MaxChunks)}

InitLabel ==
    /\ lab \in {<<v>> : v \in LabelStrings}
    /\ input = <<>>
    /\ debug = FALSE
    /\ cards = <<>>
    /\ pc = "label"
    /\ idx = 1
    /\ out = <<>>
    /\ res = NoResult

Normalize ==
    /\ pc = "label"
    /\ Len(lab) < 3
    /\ lab' = Append(lab, normalizeLabel(lab[Len(lab)]))
    /\ UNCHANGED <<input, cards, pc, idx, out, debug, res>>

NextLabel == Normalize

SpecLabel == InitLabel /\ [][NextLabel]_vars

-----------------------------------------------------------------------------
(* What the claims speak of, read off the card handed to convertCard *)

Src == res.src
St == res.st

\* the label a group resolves to
LabelOf(card, g) == Lookup(BuildLabels(card[FieldLabel], 1, <<>>), g)

IsAnniversary(card, f) == LabelOf(card, f.Group) = LabelAnniversary

\* the debug statement dereferenced a nil name before any step ran
DebugPanic == res.dbg /\ Src[FieldName] = <<>>

Indices(q) == 1..Len(q)

\* f shares a non-empty group id with a label occurrence that normalizes to Anniversary
Linked(card, f) ==
    /\ f.Group # ""
    /\ \E k \in Indices(card[FieldLabel]) :
          /\ card[FieldLabel][k].Group = f.Group
          /\ normalizeLabel(card[FieldLabel][k].Value) = LabelAnniversary

BadAddress(card) ==
    \E k \in Indices(card[FieldAddress]) :
        LET c == Split(card[FieldAddress][k].Value, ";")
        IN  maybeGet(c, 1) # <<>> \/ maybeGet(c, 2) # <<>>

RECURSIVE MapBirthday(_)
MapBirthday(q) ==
    IF q = <<>> THEN <<>> ELSE <<formatBirthday(Head(q).Value)>> \o MapBirthday(Tail(q))

RECURSIVE Filter(_, _, _)
Filter(card, q, L) ==
    IF q = <<>> THEN <<>>
    ELSE IF LabelOf(card, Head(q).Group) \in L
         THEN <<Head(q)>> \o Filter(card, Tail(q), L)
         ELSE Filter(card, Tail(q), L)

RECURSIVE FilterOut(_, _, _)
FilterOut(card, q, L) ==
    IF q = <<>> THEN <<>>
    ELSE IF LabelOf(card, Head(q).Group) \notin L
         THEN <<Head(q)>> \o FilterOut(card, Tail(q), L)
         ELSE FilterOut(card, Tail(q), L)

BirthdayLabels == {LabelBirthday, LabelPartner, LabelSpouse}

KnownLabels == BirthdayLabels \cup {LabelChild, LabelAnniversary}

\* every X-ABDATE occurrence is labelled Anniversary
AllDatesAnniversary(card) ==
    \A k \in Indices(card[FieldDate]) : IsAnniversary(card, card[FieldDate][k])

\* the X-ABDATE step returns no error: every occurrence is labelled
\* Anniversary and none follows one that left a non-empty anniversary
DatesPass(card) ==
    /\ AllDatesAnniversary(card)
    /\ \A k \in Indices(card[FieldDate]) : \A j \in 1..(k - 1) :
          formatDate(card[FieldDate][j].Value) = <<>>

-----------------------------------------------------------------------------
(* C1: a record with zero, or with two or more, N occurrences makes        *)
(* convertCard return a MalformedRecord error, whatever its other fields.  *)
C1_NameCardinalityFails ==
    (res.called /\ Len(Src[FieldName]) # 1) => St.err = "MalformedRecord"

\* a second source of an anniversary is processed by convertCard
SecondAnniversaryProcessed ==
    LET nd == Len(Src[FieldDate])
        nr == Len(Filter(Src, Src[FieldRelated], {LabelAnniversary}))
    IN  /\ res.called
        /\ Src[FieldName] # <<>>
        /\ AllDatesAnniversary(Src)
        /\ \/ nd >= 2
           \/ Len(Src[FieldName]) = 1 /\ ~BadAddress(Src) /\ nd + nr >= 2

(* C2: once one source of an anniversary (an X-ABDATE or X-ABRELATEDNAMES  *)
(* occurrence labelled Anniversary) has been processed, processing a       *)
(* second one fails with DuplicateValueError, whatever the values are.     *)
(* Stated for the records that have a name: without one convertCard does   *)
(* not get past the name step.                                             *)
C2_SecondAnniversaryFails ==
    SecondAnniversaryProcessed => St.err = "DuplicateValueError"

(* C3: the Entry returned together with an error has every attribute empty *)
C3_ErrorEntryEmpty ==
    (res.called /\ St.err \notin {"nil", "panic"}) => St.e = Entry

(* C3 as amended: when convertCard reports an error, main writes no row    *)
(* for that card and stops; the rows written are those of the cards before *)
(* it.  The Entry returned with the error keeps what earlier steps set.    *)
C3_NoRowForFailedCard ==
    (res.called /\ St.err # "nil") =>
        /\ pc \in {"fatal", "panic"}
        /\ idx <= Len(cards)
        /\ Src = cards[idx]
        /\ Len(out) = idx - 1

C3_Witness ==
    /\ res.called
    /\ St.err = "UnsupportedAddressShape"
    /\ St.e.GivenName # <<>>
    /\ St.e.Anniversary # <<>>
    /\ pc = "fatal"
    /\ out = <<>>

(* C4: a failing record does not abort the stream: when the program has    *)
(* stopped, every record after a failing one has had its outcome computed. *)
C4_StreamNotAborted ==
    (pc = "fatal" /\ input = <<>>) => idx >= Len(cards)

(* C4 as amended: cards are converted one at a time in input order and     *)
(* their rows written in that order; the first card whose conversion fails *)
(* ends the run, so the rows written are exactly those of the cards before *)
(* it and no later card is converted.                                      *)
C4_StopsAtFirstFailure ==
    pc \in {"convert", "fatal", "panic", "done"} =>
        /\ Len(out) = idx - 1
        /\ \A k \in Indices(out) :
              /\ convertCard(cards[k], debug).err = "nil"
              /\ out[k] = Record(convertCard(cards[k], debug).e)
        /\ (pc \in {"fatal", "panic"} /\ input = <<>>) =>
              /\ idx <= Len(cards)
              /\ convertCard(cards[idx], debug).err # "nil"
        /\ pc = "done" => Len(out) = Len(cards)

C4_Witness ==
    /\ pc = "fatal"
    /\ input = <<>>
    /\ idx < Len(cards)
    /\ convertCard(cards[idx + 1], debug).err = "nil"

(* C5: normalizeLabel(normalizeLabel(v)) = normalizeLabel(v) for every     *)
(* label string v.                                                         *)
C5_Idempotent == Len(lab) = 3 => lab[3] = lab[2]

CountOcc(s, p) ==
    Cardinality({k \in 1..Len(s) : k + Len(p) - 1 <= Len(s) /\ SubSeq(s, k, k + Len(p) - 1) = p})

(* C5 as amended: normalizeLabel is idempotent on every label string in    *)
(* which the prefix _$!< occurs at most once and the suffix >!$_ occurs at *)
(* most once.                                                              *)
C5_IdempotentOnSingleBrackets ==
    (Len(lab) = 3 /\ CountOcc(lab[1], ApplePrefix) <= 1 /\ CountOcc(lab[1], AppleSuffix) <= 1)
        => lab[3] = lab[2]

C5_Witness ==
    /\ Len(lab) = 3
    /\ lab[1] = Bracketed(LabelAnniversary)
    /\ lab[2] = LabelAnniversary
    /\ lab[3] = LabelAnniversary

(* C6: an X-ABDATE occurrence that does not share a non-empty group id     *)
(* with a label occurrence normalizing to Anniversary makes normalization  *)
(* fail with UnknownDateField.  Stated for the records that have a name.   *)
C6_UnlinkedDateFails ==
    (/\ res.called
     /\ Src[FieldName] # <<>>
     /\ \E k \in Indices(Src[FieldDate]) : ~Linked(Src, Src[FieldDate][k]))
        => St.err = "UnknownDateField"

(* C7: on success the X-ABRELATEDNAMES occurrences are partitioned by     *)
(* their resolved label, in occurrence order: Birthday, Partner and Spouse *)
(* each append one birthday entry after the entry of BDAY, Child appends   *)
(* one children entry, Anniversary sets the anniversary, and an occurrence *)
(* with any other label adds nothing and stays in the card.                *)
C7_RelatedPartition ==
    (res.called /\ St.err = "nil") =>
        LET rel == Src[FieldRelated]
            nb == IF CardValue(Src, FieldBirthday) # <<>> THEN 1 ELSE 0
            ann == Filter(Src, rel, {LabelAnniversary})
            dates == Src[FieldDate]
        IN  /\ Len(St.e.Birthday) >= nb
            /\ SubSeq(St.e.Birthday, nb + 1, Len(St.e.Birthday))
                  = MapBirthday(Filter(Src, rel, BirthdayLabels))
            /\ St.e.Children = MapBirthday(Filter(Src, rel, {LabelChild}))
            /\ ann # <<>> => St.e.Anniversary = formatDate(ann[Len(ann)].Value)
            /\ ann = <<>> =>
                  St.e.Anniversary =
                     IF dates = <<>> THEN <<>> ELSE formatDate(dates[Len(dates)].Value)
            /\ St.card[FieldRelated] = FilterOut(Src, rel, KnownLabels)

C7_Witness ==
    /\ res.called
    /\ St.err = "nil"
    /\ Len(Src[FieldRelated]) = 2
    /\ Len(St.e.Children) = 1
    /\ St.e.Children[1] = <<"Jane", ":", " ", "Mar", " ", "5">>
    /\ Len(St.e.Birthday) = 2
    /\ St.e.Birthday[2] = <<>>

\* the given name holds a co-resident name after the first "&"
HasCoResident(given) ==
    LET k == IndexOf(given, "&", 1)
        rest == SubSeq(given, k + 1, Len(given))
        k2 == IndexOf(rest, "&", 1)
        seg == IF k2 = 0 THEN rest ELSE SubSeq(rest, 1, k2 - 1)
    IN  k > 0 /\ \E i \in 1..Len(seg) : seg[i] # " "

\* the whitespace-trimmed part of the given name before the first "&"
PrimaryName(given) ==
    LET k == IndexOf(given, "&", 1)
    IN  TrimSpace(IF k = 0 THEN given ELSE SubSeq(given, 1, k - 1))

GivenOf(card) == maybeGet(Split(card[FieldName][1].Value, ";"), 2)

ExpectedBirthday(card) ==
    IF HasCoResident(GivenOf(card))
    THEN PrimaryName(GivenOf(card)) \o <<":", " ">> \o formatDate(card[FieldBirthday][1].Value)
    ELSE formatDate(card[FieldBirthday][1].Value)

BirthdayFieldGivesFirstEntry ==
    /\ Len(St.e.Birthday) = 1 + Len(Filter(Src, Src[FieldRelated], BirthdayLabels))
    /\ St.e.Birthday[1] = ExpectedBirthday(Src)

(* C8: when BDAY is present it contributes exactly one birthday entry,     *)
(* before the entries of the related names: "<primaryName>: <date>" if the *)
(* given name holds a co-resident name after "&", the bare date otherwise. *)
C8_BirthdayFieldEntry ==
    (res.called /\ St.err = "nil" /\ Src[FieldBirthday] # <<>>)
        => BirthdayFieldGivesFirstEntry

(* C8 as amended: when the first BDAY occurrence has a non-empty value it  *)
(* contributes exactly one birthday entry, before the entries of the       *)
(* related names, qualified as in C8; a BDAY field whose first occurrence  *)
(* has an empty value contributes no entry.                                *)
C8_NonEmptyBirthdayFieldEntry ==
    (res.called /\ St.err = "nil" /\ Src[FieldBirthday] # <<>>) =>
        IF Src[FieldBirthday][1].Value # <<>>
        THEN BirthdayFieldGivesFirstEntry
        ELSE St.e.Birthday = MapBirthday(Filter(Src, Src[FieldRelated], BirthdayLabels))

C8_Witness ==
    /\ res.called
    /\ St.err = "nil"
    /\ Src[FieldName] = <<NameThree>>
    /\ Src[FieldBirthday] = <<BirthdayLong, BirthdayISO>>
    /\ St.e.Birthday =
          <<<<"Jane", ":", " ", "Dec", " ", "25">>, <<"Bob", ":", " ", "Dec", " ", "25">>>>

RecognizedFields ==
    {FieldLabel, FieldDate, FieldName, FieldFormattedName, FieldAddress,
     FieldBirthday, FieldEmail, FieldTelephone}

(* C9: after a successful normalization every occurrence of a recognized   *)
(* field name, and every X-ABRELATEDNAMES occurrence with a known label,   *)
(* has been removed from the working card, and every other occurrence is   *)
(* still there, unchanged.                                                 *)
C9_OnlyUnknownLeft ==
    (res.called /\ St.err = "nil") =>
        St.card = [k \in FieldNames |->
                      IF k \in RecognizedFields THEN <<>>
                      ELSE IF k = FieldRelated
                           THEN FilterOut(Src, Src[FieldRelated], KnownLabels)
                           ELSE Src[k]]

FirstDateNotAnniversary(card) ==
    card[FieldDate] # <<>> /\ ~IsAnniversary(card, card[FieldDate][1])

=============================================================================
